---- MODULE Spec2Model ----
(***************************************************************************)
(* Model of the vaccination ETL pipeline of pipeline_etl.py:               *)
(* extract_data, transform_data, load_data_to_db and the orchestrator      *)
(* main.  A DataFrame is a sequence of rows; every row carries the label   *)
(* of pandas' index next to its columns.  A cell value is a pair           *)
(* <<kind, payload>> so that a string, the integer 0, a missing value, a   *)
(* Timestamp and NaT stay distinct values.                                 *)
(***************************************************************************)
EXTENDS Integers, Sequences, FiniteSets, TLC

\* ---------------------------------------------------------------- bounds
MaxRows == 2
MaxRuns == 2
MaxUpdates == 1

\* ----------------------------------------------------------- cell values
Str(s) == <<"str", s>>
Null == <<"null", "">>
NaT == <<"NaT", "">>
Timestamp(d) == <<"Timestamp", d>>
Int0 == <<"int", "0">>

\* pandas' isna: None/NaN and NaT are the missing values
IsNa(v) == v \in {Null, NaT}

\* the date strings pd.to_datetime can parse
ParseableDates == {"2021-01-01"}

\* pd.to_datetime(..., errors="coerce") on one cell
ToDatetime(v) ==
    IF v[1] = "Timestamp" THEN v
    ELSE IF v[1] = "str" /\ v[2] \in ParseableDates THEN Timestamp(v[2])
    ELSE NaT

\* ------------------------------------------------------ the remote source
DateInputs == {Str("2021-01-01"), Str("not-a-date"), Null}
CountyInputs == {Str("Adams"), Str(""), Null}
NumericInputs == { <<Str("45.2"), Null, Str("12.5")>>,
                   <<Null, Str("1000"), Null>> }

\* the JSON objects the endpoint can serve (one per row)
RawRecords ==
    { [date |-> d, recip_county |-> c, recip_state |-> Str("CA"),
       series_complete_pop_pct |-> n[1],
       administered_dose1_recip |-> n[2],
       administered_dose1_pop_pct |-> n[3],
       fips |-> Str("06001")] :
      d \in DateInputs, c \in CountyInputs, n \in NumericInputs }

RawBodies == UNION { [1..n -> RawRecords] : n \in 0..MaxRows }

Statuses == {200, 404, 500}

\* ------------------------------------------------------------- the store
Absent == [exists |-> FALSE, rows |-> <<>>]
Table(rows) == [exists |-> TRUE, rows |-> rows]

OldRow == [date |-> Str("2020-12-31 00:00:00"), county |-> Str("Old"),
           state |-> Str("TX"), fully_vaccinated_pct |-> Str("1.0"),
           at_least_one_dose |-> Str("1"), one_dose_pct |-> Str("1.0")]

InitialTables == {Absent, Table(<<>>), Table(<<OldRow>>)}

VARIABLES remote, updates, pc, runs, response, raw_data, transformed_data,
          table, conn, error, trace, fetched, table_at_start, prev

vars == <<remote, updates, pc, runs, response, raw_data, transformed_data,
          table, conn, error, trace, fetched, table_at_start, prev>>

NoResponse == [status_code |-> 0, json |-> <<>>]
NoError == [raised_in |-> "", type |-> "", status_code |-> 0]
NoPrev == [done |-> FALSE, json |-> <<>>, table |-> Absent]

\* ---------------------------------------------------------- extract_data
\* pd.DataFrame(response.json()): one row per object, RangeIndex 0..n-1
DataFrame(json) ==
    [i \in 1..Len(json) |->
        [index |-> i - 1,
         date |-> json[i].date,
         recip_county |-> json[i].recip_county,
         recip_state |-> json[i].recip_state,
         series_complete_pop_pct |-> json[i].series_complete_pop_pct,
         administered_dose1_recip |-> json[i].administered_dose1_recip,
         administered_dose1_pop_pct |-> json[i].administered_dose1_pop_pct,
         fips |-> json[i].fips]]

StatusOk_any(s) == s # 0
StatusOk(s) == s = 200

\* --------------------------------------------------------- transform_data
\* the columns of a frame: a frame built from an empty JSON array has none
Columns(data) == IF Len(data) = 0 THEN {} ELSE DOMAIN data[1] \ {"index"}

columns == {"date", "recip_county", "recip_state", "series_complete_pop_pct",
            "administered_dose1_recip", "administered_dose1_pop_pct"}

\* data["date"] and data[columns] raise KeyError on a missing column
RaisesKeyError(data) == ~ (columns \subseteq Columns(data))

\* data["date"] = pd.to_datetime(data["date"], errors="coerce"): assigns the
\* column of the frame object the caller passed in
AssignDate(data) ==
    [i \in 1..Len(data) |-> [data[i] EXCEPT !.date = ToDatetime(@)]]

\* data = data[columns]; data.rename(columns={...}, inplace=True)
SelectRename(data) ==
    [i \in 1..Len(data) |->
        [index |-> data[i].index,
         date |-> data[i].date,
         county |-> data[i].recip_county,
         state |-> data[i].recip_state,
         fully_vaccinated_pct |-> data[i].series_complete_pop_pct,
         at_least_one_dose |-> data[i].administered_dose1_recip,
         one_dose_pct |-> data[i].administered_dose1_pop_pct]]

FillValue_empty == Str("")
FillValue == Int0

Fill(v) == IF IsNa(v) THEN FillValue ELSE v

FillNa_skip(data) ==
    [i \in 1..Len(data) |->
        [index |-> data[i].index,
         date |-> Fill(data[i].date),
         county |-> Fill(data[i].county),
         state |-> Fill(data[i].state),
         fully_vaccinated_pct |-> Fill(data[i].fully_vaccinated_pct),
         at_least_one_dose |-> data[i].at_least_one_dose,
         one_dose_pct |-> Fill(data[i].one_dose_pct)]]
\* data.fillna(0, inplace=True): every column of the projected frame
FillNa(data) ==
    [i \in 1..Len(data) |->
        [index |-> data[i].index,
         date |-> Fill(data[i].date),
         county |-> Fill(data[i].county),
         state |-> Fill(data[i].state),
         fully_vaccinated_pct |-> Fill(data[i].fully_vaccinated_pct),
         at_least_one_dose |-> Fill(data[i].at_least_one_dose),
         one_dose_pct |-> Fill(data[i].one_dose_pct)]]

KeepRow_all(r) == r.county = r.county
KeepRow(r) == r.county # Str("")

\* data = data[data["county"] != ""]
FilterCounty(data) == SelectSeq(data, KeepRow)

\* the frame transform_data returns
transform_data(data) == FilterCounty(FillNa(SelectRename(AssignDate(data))))

\* -------------------------------------------------------- load_data_to_db
\* the row to_sql writes for a frame row: index=False leaves the index out
SqlRow(r) ==
    [date |-> r.date, county |-> r.county, state |-> r.state,
     fully_vaccinated_pct |-> r.fully_vaccinated_pct,
     at_least_one_dose |-> r.at_least_one_dose,
     one_dose_pct |-> r.one_dose_pct]

SqlRows(data) == [i \in 1..Len(data) |-> SqlRow(data[i])]

ToSql_append(tbl, data) == Table(tbl.rows \o SqlRows(data))
ToSql_keep(tbl, data) == IF tbl.exists THEN tbl ELSE Table(SqlRows(data))
\* data.to_sql("vaccinations", conn, if_exists="replace", index=False)
ToSql(tbl, data) == Table(SqlRows(data))

\* what a to_sql that raises can leave behind: the table as it was, no
\* table, or a table holding only the first k rows
FailedWrites(tbl, data) ==
    {tbl, Absent} \cup { Table(SubSeq(SqlRows(data), 1, k)) : k \in 0..(Len(data) - 1) }

\* ------------------------------------------------------------------ main
Steps == <<"extract_data", "transform_data", "load_data_to_db">>

MainNext_skip(label) ==
    CASE label = "main_83" -> "main_91"
      [] label = "main_87" -> "main_91"
      [] label = "main_91" -> "done"
\* the statement of main that follows the call at the given line
MainNext(label) ==
    CASE label = "main_83" -> "main_87"
      [] label = "main_87" -> "main_91"
      [] label = "main_91" -> "done"

Init ==
    /\ remote \in RawBodies
    /\ updates = 0
    /\ pc = "idle"
    /\ runs = 0
    /\ response = NoResponse
    /\ raw_data = <<>>
    /\ transformed_data = <<>>
    /\ table \in InitialTables
    /\ conn = "none"
    /\ error = NoError
    /\ trace = <<>>
    /\ fetched = <<>>
    /\ table_at_start = table
    /\ prev = NoPrev

\* the script is run: a new process enters main
MainStart ==
    /\ pc \in {"idle", "done", "raised"}
    /\ runs < MaxRuns
    /\ runs' = runs + 1
    /\ pc' = "main_83"
    /\ prev' = IF pc = "done"
               THEN [done |-> TRUE, json |-> response.json, table |-> table]
               ELSE NoPrev
    /\ response' = NoResponse
    /\ raw_data' = <<>>
    /\ transformed_data' = <<>>
    /\ conn' = "none"
    /\ error' = NoError
    /\ trace' = <<>>
    /\ fetched' = <<>>
    /\ table_at_start' = table
    /\ UNCHANGED <<remote, updates, table>>

\* raw_data = extract_data()
MainExtract ==
    /\ pc = "main_83"
    /\ \E s \in Statuses :
        /\ response' = [status_code |-> s, json |-> remote]
        /\ IF StatusOk(s)
           THEN /\ raw_data' = DataFrame(remote)
                /\ fetched' = DataFrame(remote)
                /\ pc' = MainNext("main_83")
                /\ error' = error
           ELSE /\ error' = [raised_in |-> "extract_data", type |-> "Exception",
                             status_code |-> s]
                /\ pc' = "raised"
                /\ UNCHANGED <<raw_data, fetched>>
    /\ trace' = Append(trace, "extract_data")
    /\ UNCHANGED <<remote, updates, runs, transformed_data, table, conn,
                   table_at_start, prev>>

\* transformed_data = transform_data(raw_data)
MainTransform ==
    /\ pc = "main_87"
    /\ IF RaisesKeyError(raw_data)
       THEN /\ error' = [raised_in |-> "transform_data", type |-> "KeyError",
                         status_code |-> 0]
            /\ pc' = "raised"
            /\ UNCHANGED <<raw_data, transformed_data>>
       ELSE /\ raw_data' = AssignDate(raw_data)
            /\ transformed_data' = transform_data(raw_data)
            /\ pc' = MainNext("main_87")
            /\ error' = error
    /\ trace' = Append(trace, "transform_data")
    /\ UNCHANGED <<remote, updates, runs, response, table, conn, fetched,
                   table_at_start, prev>>

\* load_data_to_db(transformed_data): connect, to_sql, close
MainLoad ==
    /\ pc = "main_91"
    /\ \/ /\ table' = ToSql(table, transformed_data)
          /\ conn' = "closed"
          /\ pc' = MainNext("main_91")
          /\ error' = error
       \/ /\ table' \in FailedWrites(table, transformed_data)
          /\ conn' = "open"
          /\ pc' = "raised"
          /\ error' = [raised_in |-> "load_data_to_db", type |-> "DatabaseError",
                       status_code |-> 0]
    /\ trace' = Append(trace, "load_data_to_db")
    /\ UNCHANGED <<remote, updates, runs, response, raw_data, transformed_data,
                   fetched, table_at_start, prev>>

\* the publisher changes what the endpoint serves
RemoteUpdate ==
    /\ updates < MaxUpdates
    /\ Len(remote) > 0
    /\ remote' = Tail(remote)
    /\ updates' = updates + 1
    /\ UNCHANGED <<pc, runs, response, raw_data, transformed_data, table, conn,
                   error, trace, fetched, table_at_start, prev>>

Next == MainStart \/ MainExtract \/ MainTransform \/ MainLoad \/ RemoteUpdate

Spec == Init /\ [][Next]_vars

\* ------------------------------------------------------------- properties
Range(s) == { s[i] : i \in 1..Len(s) }

IsPrefix(s, t) == Len(s) <= Len(t) /\ s = SubSeq(t, 1, Len(s))

\* transform_data has returned a frame to main in the current run
TransformReturned ==
    /\ Len(trace) >= 2
    /\ ~ (pc = "raised" /\ error.raised_in = "transform_data")

\* load_data_to_db has been called and has ended in the current run
LoadEnded == Len(trace) >= 3

\* the row of the frame extract_data returned that carries the index label
Source(r) == fetched[r.index + 1]

NumericFields == << <<"fully_vaccinated_pct", "series_complete_pop_pct">>,
                    <<"at_least_one_dose", "administered_dose1_recip">>,
                    <<"one_dose_pct", "administered_dose1_pop_pct">> >>

CleanColumns == {"date", "county", "state", "fully_vaccinated_pct",
                 "at_least_one_dose", "one_dose_pct"}

\* C1: in every run the steps taken so far are an initial part of fetch,
\* transform, load in that order; transform starts only after fetch has
\* returned, load only after transform has returned, and a run that reports
\* completion has executed each of the three exactly once.
C1_StepsInOrder ==
    /\ IsPrefix(trace, Steps)
    /\ (pc = "main_83") => (trace = <<>>)
    /\ (pc = "main_87") => (trace = <<"extract_data">>)
    /\ (pc = "main_91") => (trace = <<"extract_data", "transform_data">>)
    /\ (pc = "done") => (trace = Steps)

C1_Witness == pc = "done" /\ Len(trace) = 3 /\ runs = 2

\* C2: a non-success status makes extract_data raise an error carrying the
\* status code; the run ends there with extract_data called once, the loader
\* not called and the store as it was when the run began; a failure raised
\* inside transform_data also leaves the store as it was.
C2_FetchFailureLeavesStore ==
    /\ (response.status_code \notin {0, 200}) =>
          /\ pc = "raised"
          /\ error.raised_in = "extract_data"
          /\ error.status_code = response.status_code
          /\ trace = <<"extract_data">>
    /\ (pc = "raised" /\ error.raised_in \in {"extract_data", "transform_data"}) =>
          /\ table = table_at_start
          /\ conn = "none"
          /\ "load_data_to_db" \notin Range(trace)

C2_Witness ==
    /\ pc = "raised"
    /\ error.raised_in = "extract_data"
    /\ error.status_code = 500
    /\ table = Table(<<OldRow>>)
    /\ Len(remote) > 0

\* C3: when load_data_to_db has returned successfully the vaccinations table
\* exists and holds, row for row and column for column, the frame it was
\* given and nothing else, whatever the table was before.
C3_TableIsExactlyTheDataset ==
    (pc = "done") =>
        /\ table.exists
        /\ Len(table.rows) = Len(transformed_data)
        /\ \A i \in 1..Len(table.rows) :
              /\ DOMAIN table.rows[i] = CleanColumns
              /\ \A c \in CleanColumns : table.rows[i][c] = transformed_data[i][c]

C3_Witness ==
    /\ pc = "done"
    /\ table_at_start = Table(<<OldRow>>)
    /\ Len(transformed_data) > 0

\* C4: when two consecutive completed runs received the same response body,
\* the table after the second run equals the table after the first.
C4_TwoRunsSameTable ==
    (pc = "done" /\ prev.done /\ prev.json = response.json) =>
        (table = prev.table)

C4_Witness ==
    /\ pc = "done"
    /\ prev.done
    /\ prev.json = response.json
    /\ Len(table.rows) > 0

\* C5: once load_data_to_db has ended, normally or with an error, the
\* connection it opened is closed.
C5_ConnectionClosedOnEveryExit ==
    LoadEnded => (conn = "closed")

\* C6: the frame transform_data returns holds exactly the input rows whose
\* recip_county is not the empty string, in input order: none added, none
\* with an empty county, and the count is the input count minus the number
\* of empty-county rows.
EmptyCounty(data) == { i \in 1..Len(data) : data[i].recip_county = Str("") }

C6_OutputIsNonEmptyCountyRows ==
    TransformReturned =>
        /\ { r.index : r \in Range(transformed_data) } =
              { fetched[i].index : i \in (1..Len(fetched)) \ EmptyCounty(fetched) }
        /\ Len(transformed_data) = Len(fetched) - Cardinality(EmptyCounty(fetched))
        /\ Len(transformed_data) <= Len(fetched)
        /\ \A j \in 1..Len(transformed_data) :
              /\ transformed_data[j].county # Str("")
              /\ \A k \in 1..Len(transformed_data) :
                    (j < k) => (transformed_data[j].index < transformed_data[k].index)

C6_Witness ==
    /\ TransformReturned
    /\ Len(fetched) = 2
    /\ Cardinality(EmptyCounty(fetched)) = 1
    /\ Len(transformed_data) = 1
    /\ Source(transformed_data[1]).series_complete_pop_pct = Null

\* C7: in every record transform_data returns, each numeric field is
\* non-null: zero where the source value was null, the source value where it
\* was present.
C7_NumericFieldsFilled ==
    TransformReturned =>
        \A j \in 1..Len(transformed_data) : \A f \in Range(NumericFields) :
            /\ ~ IsNa(transformed_data[j][f[1]])
            /\ IsNa(Source(transformed_data[j])[f[2]]) =>
                  (transformed_data[j][f[1]] = Int0)
            /\ (~ IsNa(Source(transformed_data[j])[f[2]])) =>
                  (transformed_data[j][f[1]] = Source(transformed_data[j])[f[2]])

C7_Witness ==
    /\ TransformReturned
    /\ \E j \in 1..Len(transformed_data) :
          /\ Source(transformed_data[j]).administered_dose1_recip = Null
          /\ transformed_data[j].at_least_one_dose = Int0
          /\ transformed_data[j].fully_vaccinated_pct = Str("45.2")

\* C8: a source row whose date string cannot be parsed does not fail the
\* run, and the record output for it has a null date, not a date and not a
\* fill value.
UnparseableDate(v) == v[1] = "str" /\ v[2] \notin ParseableDates

C8_UnparseableDateStaysNull ==
    /\ (pc = "raised" /\ error.raised_in = "transform_data") =>
          (\A i \in 1..Len(fetched) : ~ UnparseableDate(fetched[i].date))
    /\ TransformReturned =>
          \A j \in 1..Len(transformed_data) :
              UnparseableDate(Source(transformed_data[j]).date) =>
                  IsNa(transformed_data[j].date)

\* C9: transform_data leaves the frame passed in as it was, and what it
\* returns is a function of that frame alone.
C9_InputUnchanged ==
    TransformReturned =>
        /\ raw_data = fetched
        /\ transformed_data = transform_data(fetched)

\* C10 as stated: a source row with a null county survives the filter and
\* appears in the output with the empty string as its county.
C10_NullCountySurvivesAsEmptyString ==
    TransformReturned =>
        \A i \in 1..Len(fetched) :
            (fetched[i].recip_county = Null) =>
                \E j \in 1..Len(transformed_data) :
                    /\ transformed_data[j].index = fetched[i].index
                    /\ transformed_data[j].county = Str("")

\* C10 amended: a source row with a null county survives the filter and
\* appears in the output with the fill value 0 as its county.
C10_NullCountySurvivesAsZero ==
    TransformReturned =>
        \A i \in 1..Len(fetched) :
            (fetched[i].recip_county = Null) =>
                \E j \in 1..Len(transformed_data) :
                    /\ transformed_data[j].index = fetched[i].index
                    /\ transformed_data[j].county = Int0

C10_Witness ==
    /\ TransformReturned
    /\ \E j \in 1..Len(transformed_data) :
          /\ Source(transformed_data[j]).recip_county = Null
          /\ transformed_data[j].county = Int0
    /\ \E i \in 1..Len(fetched) : fetched[i].recip_county = Str("")

====
